---- MODULE Spec2Model ----
(***************************************************************************)
(* Model of the telemetry subscriber (4주차 개인과제/subscriber.py: battery  *)
(* validation, minute-bucket CSV rotation under a file budget) and of the  *)
(* delivery-statistics collector (iot기초_2023108095_고지운.py:             *)
(* StatCollector).                                                         *)
(*                                                                         *)
(* JSON values are records [t, n]: t is the type tag and n an integer.     *)
(* Numbers are fixed-point hundredths (42 is 4200, -0.01 is -1, 1.5 is     *)
(* 150).  Tags: "absent" (key not in the object), "null", "num", "numstr"  *)
(* (a string holding the decimal text of n), "txt" (any other string),     *)
(* "bool" (n is 0 or 1), "nan" (the number NaN), "list".                   *)
(***************************************************************************)
EXTENDS Integers, Sequences, FiniteSets, TLC

\* ------------------------------------------------------------- bounds
MaxClock == 1
MaxMsgs == 2
MaxBudgetClock == 5
MaxBudgetMsgs == 5
MaxRuns == 2
MaxSetbacks == 1
MaxArrivals == 4
MaxSeq == 4
MaxMargin == 2
MaxConcCalls == 3
MaxSimSeconds == 2
MaxSimCount == 3

\* ------------------------------------------------------------- values
Absent == [t |-> "absent", n |-> 0]
None == [t |-> "null", n |-> 0]
Num(h) == [t |-> "num", n |-> h]
NumStr(h) == [t |-> "numstr", n |-> h]
Txt == [t |-> "txt", n |-> 0]
Bool(b) == [t |-> "bool", n |-> b]
NaN == [t |-> "nan", n |-> 0]
List == [t |-> "list", n |-> 0]

\* float(x): ok is FALSE where float() raises (TypeError / ValueError).
float(x) ==
  CASE x.t \in {"num", "numstr", "bool"} ->
         [ok |-> TRUE, nan |-> FALSE, n |-> IF x.t = "bool" THEN x.n * 100 ELSE x.n]
    [] x.t = "nan" -> [ok |-> TRUE, nan |-> TRUE, n |-> 0]
    [] OTHER -> [ok |-> FALSE, nan |-> FALSE, n |-> 0]

is_battery_valid_NoUpper(bat) ==
  IF bat = None THEN FALSE
  ELSE IF ~float(bat).ok THEN FALSE
  ELSE ~float(bat).nan /\ 0 <= float(bat).n

is_battery_valid_Strict(bat) ==
  IF bat = None THEN FALSE
  ELSE IF ~float(bat).ok THEN FALSE
  ELSE ~float(bat).nan /\ 0 < float(bat).n /\ float(bat).n < 10000

is_battery_valid(bat) ==
  IF bat = None THEN FALSE
  ELSE IF ~float(bat).ok THEN FALSE
  ELSE ~float(bat).nan /\ 0 <= float(bat).n /\ float(bat).n <= 10000


\* ------------------------------------------------- subscriber: payloads
MAX_FILES == 5

\* An inbound payload: kind "undecodable" (invalid UTF-8 or invalid JSON),
\* "object", "list" (top-level JSON array) or "scalar" (top-level number,
\* true, false or null).  The fields are those of the object; Absent elsewhere.
Obj(battery, bat, battery_level, ts, timestamp) ==
  [kind |-> "object", battery |-> battery, bat |-> bat,
   battery_level |-> battery_level, ts |-> ts, timestamp |-> timestamp]
NonObj(kind) ==
  [kind |-> kind, battery |-> Absent, bat |-> Absent,
   battery_level |-> Absent, ts |-> Absent, timestamp |-> Absent]

\* int(time.time() * 1000): the receipt time, a positive number that no
\* payload of the model carries.
ReceiptMs == [t |-> "now", n |-> 0]

\* bool(x) of Python: None, 0, 0.0 and False are falsy.
Truthy(x) == ~(x = None \/ (x.t \in {"num", "bool"} /\ x.n = 0))

\* pick(*keys) over the decoded object p: the first key present and not None.
RECURSIVE pick(_, _)
pick(p, keys) ==
  IF keys = <<>> THEN None
  ELSE IF p[Head(keys)] # Absent /\ p[Head(keys)] # None THEN p[Head(keys)]
  ELSE pick(p, Tail(keys))

\* parse_payload(payload).  raised: the TypeError of `k in p` on a
\* top-level scalar leaves the function.  An undecodable payload gives {}, whose
\* .get() is None for every field.
parse_payload(payload) ==
  CASE payload.kind = "undecodable" ->
         [raised |-> FALSE, battery |-> None, ts_ms |-> None]
    [] payload.kind = "scalar" ->
         [raised |-> TRUE, battery |-> None, ts_ms |-> None]
    [] OTHER ->
         [raised |-> FALSE,
          battery |-> pick(payload, <<"battery", "bat", "battery_level">>),
          ts_ms |-> IF Truthy(pick(payload, <<"ts", "timestamp">>))
                    THEN pick(payload, <<"ts", "timestamp">>)
                    ELSE ReceiptMs]


\* --------------------------------------------------- subscriber: state
VARIABLES
  clock,               \* wall clock, in minutes (datetime.now())
  setbacks,            \* times the wall clock was set back (bounded by MaxSetbacks)
  pc,                  \* position of the process: "start", "idle", the steps of
                       \* on_message, "exited" (os._exit), "crashed" (uncaught)
  run,                 \* number of the current run of the program
  msgs,                \* on_message calls so far (bounded by MaxMsgs)
  current_minute_key,  \* NoKey is None
  current_file,        \* key of the open file, NoKey is None
  current_writer,      \* key of the file the csv writer writes to, NoKey is None
  created_files,
  buf,                 \* rows written to the open file object and not yet flushed
  disk,                \* the files of SAVE_DIR: minute key -> rows of the file
  rec,                 \* the parsed record of the message being handled
  row,                 \* the row built for it
  opened,              \* history: open() calls made by this run
  handles,             \* keys of the files this process holds open (open() made,
                       \* close() not yet)
  asked,               \* history: keys passed to open_new_file in this run, in order
  lastClass,           \* history: battery class of the latest message of this run
  rowsBefore,          \* history: data rows on disk when that message arrived
  sig                  \* history: where the signal that ended this run arrived

VARIABLES
  stats,       \* StatCollector.stats: topic -> entry, NoStats where absent
  snap,        \* the value the latest snapshot() returned
  snapFresh,   \* history: no record() call since that snapshot
  arrSeqs,     \* history: topic -> the sequence numbers the arrivals carried
  arrTotal,    \* history: topic -> number of arrivals
  arrNoSeq     \* history: topic -> number of arrivals carrying no sequence number

VARIABLES
  lock,        \* StatCollector.lock: the thread holding it, NoThread when free
  thr,         \* recording thread -> [pc, topic, seq] of its record() call
  snapper,     \* the thread calling snapshot(): [pc, keys, todo, out]
  calls,       \* history: recording thread -> the record() calls it made, in
               \* order, each [topic, payload, first]: first says the channel
               \* had no entry when the call was made
  log          \* history: the record() calls in the order they took the lock

VARIABLES
  vBat,        \* the argument of the latest is_battery_valid call
  vOut         \* what it returned: "none" before the call, "T" or "F"

concVars == <<lock, thr, snapper, calls, log>>
VARIABLES
  simPc,        \* position of the simulator's main(): "off" (not started),
                \* "connect", "loop", "publish", "finally", "disconnect", "done",
                \* "killed"
  normal_exit,  \* normal_exit["flag"]
  stop_event,   \* stop_event.is_set()
  elapsed,      \* whole seconds of time.time() - start
  count,        \* rounds of the publish loop made
  retained,     \* what the broker retains on the online and mode topics
  will          \* the broker holds the publisher's last-will message

simVars == <<simPc, normal_exit, stop_event, elapsed, count, retained, will>>

statVars == <<stats, snap, snapFresh, arrSeqs, arrTotal, arrNoSeq, concVars>>
validVars == <<vBat, vOut>>

subVars == <<clock, setbacks, pc, run, msgs, current_minute_key, current_file,
             current_writer, created_files, buf, disk, rec, row, opened, handles, asked,
             lastClass, rowsBefore, sig>>

NoKey == -1

\* strftime("%Y%m%d_%H%M") of the wall clock: the minute.
now_minute_key(c) == c

Header == [hdr |-> TRUE, ts_iso |-> NoKey, ts_ms |-> None, battery |-> None]
NoRow == Header
NoRec == [raised |-> FALSE, battery |-> None, ts_ms |-> None]

\* os.path.exists(fpath), and the file system after open(fpath, "a").
exists(d, k) == k \in DOMAIN d
Opened(d, k) == IF exists(d, k) THEN d ELSE [x \in DOMAIN d \cup {k} |-> IF x = k THEN <<>> ELSE d[x]]

\* The module globals and the file system, as one value the functions below
\* take and return.  alive is FALSE once os._exit(0) has been called.
Globals ==
  [current_minute_key |-> current_minute_key, current_file |-> current_file,
   current_writer |-> current_writer, created_files |-> created_files,
   buf |-> buf, disk |-> disk, alive |-> TRUE, opened |-> opened, asked |-> asked,
   handles |-> handles]

\* file.flush(): the buffered rows reach the file.
Flushed(g) ==
  IF g.current_file = NoKey THEN g
  ELSE [g EXCEPT !.disk[g.current_file] = @ \o g.buf, !.buf = <<>>]

\* close_file mutated: the file counter is advanced on every close.
close_file_Counting(g) ==
  [Flushed(g) EXCEPT !.current_file = NoKey, !.current_writer = NoKey,
                     !.handles = @ \ {g.current_file},
                     !.created_files = @ + 1]

\* close_file(): flush and close the open file, forget file and writer.
close_file(g) ==
  [Flushed(g) EXCEPT !.current_file = NoKey, !.current_writer = NoKey,
                     !.handles = @ \ {g.current_file}]


\* open_new_file mutated: the budget test is off by one (> instead of >=).
open_new_file_OffByOne(g, mk) ==
  LET a == [g EXCEPT !.asked = Append(@, mk)] IN
  IF a.created_files > MAX_FILES THEN [ok |-> FALSE, g |-> a]
  ELSE
    LET is_new == ~exists(a.disk, mk)
        o == [a EXCEPT !.disk = Opened(@, mk), !.current_file = mk,
                       !.current_writer = mk, !.opened = @ + 1,
                       !.handles = @ \cup {mk}]
        h == IF is_new THEN Flushed([o EXCEPT !.buf = Append(@, Header)]) ELSE o
    IN [ok |-> TRUE, g |-> [h EXCEPT !.created_files = @ + 1]]

\* open_new_file mutated: the header is written on every open.
open_new_file_AlwaysHeader(g, mk) ==
  LET a == [g EXCEPT !.asked = Append(@, mk)] IN
  IF a.created_files >= MAX_FILES THEN [ok |-> FALSE, g |-> a]
  ELSE
    LET o == [a EXCEPT !.disk = Opened(@, mk), !.current_file = mk,
                       !.current_writer = mk, !.opened = @ + 1,
                       !.handles = @ \cup {mk}]
        h == Flushed([o EXCEPT !.buf = Append(@, Header)])
    IN [ok |-> TRUE, g |-> [h EXCEPT !.created_files = @ + 1]]

\* open_new_file(minute_key): ok is the value returned.  open(fpath, "a")
\* creates the file when it is absent and keeps its rows when it exists.
open_new_file(g, mk) ==
  LET a == [g EXCEPT !.asked = Append(@, mk)] IN
  IF a.created_files >= MAX_FILES THEN [ok |-> FALSE, g |-> a]
  ELSE
    LET is_new == ~exists(a.disk, mk)
        o == [a EXCEPT !.disk = Opened(@, mk), !.current_file = mk,
                       !.current_writer = mk, !.opened = @ + 1,
                       !.handles = @ \cup {mk}]
        h == IF is_new THEN Flushed([o EXCEPT !.buf = Append(@, Header)]) ELSE o
    IN [ok |-> TRUE, g |-> [h EXCEPT !.created_files = @ + 1]]

\* graceful_exit mutated: os._exit(0) without close_file(); what the file
\* object had buffered is lost with the process.
graceful_exit_NoClose(g) ==
  [g EXCEPT !.buf = <<>>, !.current_file = NoKey, !.current_writer = NoKey,
            !.alive = FALSE]

\* graceful_exit(): close_file(), then os._exit(0).
graceful_exit(g) == [close_file(g) EXCEPT !.alive = FALSE]

\* rotate_if_needed mutated: the key is not compared with the current one.
rotate_if_needed_Always(g, c) ==
  LET mk == now_minute_key(c)
      r == open_new_file(close_file(g), mk)
  IN IF r.ok THEN [r.g EXCEPT !.current_minute_key = mk]
     ELSE graceful_exit(r.g)

\* rotate_if_needed mutated: the new file is opened without close_file().
rotate_if_needed_NoClose(g, c) ==
  LET mk == now_minute_key(c) IN
  IF mk # g.current_minute_key
  THEN LET r == open_new_file(Flushed(g), mk) IN
       IF r.ok THEN [r.g EXCEPT !.current_minute_key = mk]
       ELSE graceful_exit(r.g)
  ELSE g

\* rotate_if_needed mutated: a refused open_new_file is not followed by
\* graceful_exit().
rotate_if_needed_NoExit(g, c) ==
  LET mk == now_minute_key(c) IN
  IF mk # g.current_minute_key
  THEN LET r == open_new_file(close_file(g), mk) IN
       IF r.ok THEN [r.g EXCEPT !.current_minute_key = mk]
       ELSE r.g
  ELSE g

\* rotate_if_needed() with the wall clock at c.
rotate_if_needed(g, c) ==
  LET mk == now_minute_key(c) IN
  IF mk # g.current_minute_key
  THEN LET r == open_new_file(close_file(g), mk) IN
       IF r.ok THEN [r.g EXCEPT !.current_minute_key = mk]
       ELSE graceful_exit(r.g)
  ELSE g

\* The globals and the file system after a call that returned g.
SetGlobals(g) ==
  /\ current_minute_key' = g.current_minute_key
  /\ current_file' = g.current_file
  /\ current_writer' = g.current_writer
  /\ created_files' = g.created_files
  /\ buf' = g.buf
  /\ disk' = g.disk
  /\ opened' = g.opened
  /\ handles' = g.handles
  /\ asked' = g.asked

globalVars == <<current_minute_key, current_file, current_writer, created_files,
                buf, disk, opened, handles, asked>>


vars == <<subVars, statVars, validVars, simVars>>

\* --------------------------------------------- subscriber: the messages
A == Absent
SubPayloads ==
  { NonObj("undecodable"), NonObj("list"), NonObj("scalar"),
    Obj(A, A, A, A, A),
    Obj(Num(4200), A, A, Num(700), A),
    Obj(None, Num(10000), A, Num(0), Num(700)),
    Obj(Num(15000), A, A, A, A),
    Obj(A, Num(-1), A, A, A),
    Obj(Num(10001), A, A, A, A),
    Obj(A, A, Txt, A, A) }

\* The battery field a payload carries (the first of battery, bat,
\* battery_level that is present and not null), and whether it is a number
\* within [0, 100].
CarriedBattery(p) ==
  IF p.kind # "object" THEN None
  ELSE IF p.battery \notin {Absent, None} THEN p.battery
  ELSE IF p.bat \notin {Absent, None} THEN p.bat
  ELSE IF p.battery_level \notin {Absent, None} THEN p.battery_level
  ELSE None
NumericInRange(b) ==
  /\ b.t \in {"num", "numstr", "bool"}
  /\ LET v == IF b.t = "bool" THEN 100 * b.n ELSE b.n IN v >= 0 /\ v <= 10000

DataRows(f) == Len(SelectSeq(f, LAMBDA r : ~r.hdr))
RECURSIVE SumRows(_, _)
SumRows(d, ks) ==
  IF ks = {} THEN 0
  ELSE LET k == CHOOSE x \in ks : TRUE IN DataRows(d[k]) + SumRows(d, ks \ {k})
TotalDataRows(d) == SumRows(d, DOMAIN d)


\* ------------------------------------------- subscriber: the operations
\* No signal has arrived.  Otherwise sig is [at, open]: the position of the
\* process when the handler ran and whether a file was open then.
NoSig == [at |-> "none", open |-> FALSE]

\* The state at import: the module globals of lines 27-30, before __main__.
InitSub ==
  /\ clock = 0
  /\ setbacks = 0
  /\ pc = "start"
  /\ run = 1
  /\ msgs = 0
  /\ current_minute_key = NoKey
  /\ current_file = NoKey
  /\ current_writer = NoKey
  /\ created_files = 0
  /\ buf = <<>>
  /\ disk = <<>>
  /\ rec = NoRec
  /\ row = NoRow
  /\ opened = 0
  /\ handles = {}
  /\ asked = <<>>
  /\ lastClass = "none"
  /\ rowsBefore = 0
  /\ sig = NoSig

\* The wall clock reaches the next minute.  Only Start, Rotate, BuildRow and
\* RotateAgain read the clock, so a tick is taken at the positions right
\* before them; a tick anywhere else is the same tick taken at the next such
\* position.
Tick(maxClock) ==
  /\ pc \in {"start", "idle", "row", "rotate_again"}
  /\ clock < maxClock
  /\ clock' = clock + 1
  /\ UNCHANGED <<setbacks, pc, run, msgs, globalVars, rec, row, lastClass, rowsBefore>>
  /\ UNCHANGED <<sig, statVars, validVars, simVars>>

\* The wall clock is set back a minute (clock adjustment, end of daylight
\* saving time): datetime.now() is local time and not monotonic.
ClockBack ==
  /\ pc = "idle"
  /\ clock > 0
  /\ setbacks < MaxSetbacks
  /\ setbacks' = setbacks + 1
  /\ clock' = clock - 1
  /\ UNCHANGED <<pc, run, msgs, globalVars, rec, row, lastClass, rowsBefore>>
  /\ UNCHANGED <<sig, statVars, validVars, simVars>>

\* __main__ mutated: loop_forever() without the initial rotate_if_needed().
Start_NoRotate ==
  /\ pc = "start"
  /\ pc' = "idle"
  /\ UNCHANGED <<clock, setbacks, run, msgs, globalVars, rec, row, lastClass, rowsBefore>>
  /\ UNCHANGED <<sig, statVars, validVars, simVars>>

\* __main__: the initial rotate_if_needed(), then loop_forever().
Start ==
  /\ pc = "start"
  /\ LET g == rotate_if_needed(Globals, clock) IN
       /\ SetGlobals(g)
       /\ pc' = IF g.alive THEN "idle" ELSE "exited"
  /\ UNCHANGED <<clock, setbacks, run, msgs, rec, row, lastClass, rowsBefore>>
  /\ UNCHANGED <<sig, statVars, validVars, simVars>>

\* on_message mutated: rotate_if_needed() is called before the battery test.
OnMessage_RotateFirst(payload, maxMsgs) ==
  /\ pc = "idle"
  /\ msgs < maxMsgs
  /\ msgs' = msgs + 1
  /\ lastClass' = IF NumericInRange(CarriedBattery(payload)) THEN "good" ELSE "bad"
  /\ rowsBefore' = TotalDataRows(disk)
  /\ LET r == parse_payload(payload)
         g == rotate_if_needed(Globals, clock)
     IN IF r.raised THEN pc' = "crashed" /\ rec' = NoRec /\ UNCHANGED globalVars
        ELSE /\ SetGlobals(g)
             /\ IF ~g.alive THEN pc' = "exited" /\ rec' = NoRec
                ELSE IF ~is_battery_valid(r.battery) THEN pc' = "idle" /\ rec' = NoRec
                ELSE pc' = "row" /\ rec' = r
  /\ UNCHANGED <<clock, setbacks, run, row>>
  /\ UNCHANGED <<sig, statVars, validVars, simVars>>

\* on_message, lines 127-131: parse, validate, skip the invalid record.
OnMessage(payload, maxMsgs) ==
  /\ pc = "idle"
  /\ msgs < maxMsgs
  /\ msgs' = msgs + 1
  /\ lastClass' = IF NumericInRange(CarriedBattery(payload)) THEN "good" ELSE "bad"
  /\ rowsBefore' = TotalDataRows(disk)
  /\ LET r == parse_payload(payload) IN
       IF r.raised THEN pc' = "crashed" /\ rec' = NoRec
       ELSE IF ~is_battery_valid(r.battery) THEN pc' = "idle" /\ rec' = NoRec
       ELSE pc' = "rotate" /\ rec' = r
  /\ UNCHANGED <<clock, setbacks, run, globalVars, row>>
  /\ UNCHANGED <<sig, statVars, validVars, simVars>>

\* on_message, line 133: rotate_if_needed().
Rotate ==
  /\ pc = "rotate"
  /\ LET g == rotate_if_needed(Globals, clock) IN
       /\ SetGlobals(g)
       /\ pc' = IF g.alive THEN "row" ELSE "exited"
  /\ UNCHANGED <<clock, setbacks, run, msgs, rec, row, lastClass, rowsBefore>>
  /\ UNCHANGED <<sig, statVars, validVars, simVars>>

\* on_message, lines 135-147: the row, stamped with the clock as it is now.
BuildRow ==
  /\ pc = "row"
  /\ row' = [hdr |-> FALSE, ts_iso |-> clock, ts_ms |-> rec.ts_ms,
             battery |-> rec.battery]
  /\ pc' = IF current_writer = NoKey THEN "rotate_again" ELSE "write"
  /\ UNCHANGED <<clock, setbacks, run, msgs, globalVars, rec, lastClass, rowsBefore>>
  /\ UNCHANGED <<sig, statVars, validVars, simVars>>

\* on_message, lines 150-151: no writer, rotate_if_needed() once more.
RotateAgain ==
  /\ pc = "rotate_again"
  /\ LET g == rotate_if_needed(Globals, clock) IN
       /\ SetGlobals(g)
       /\ pc' = IF g.alive THEN "write" ELSE "exited"
  /\ UNCHANGED <<clock, setbacks, run, msgs, rec, row, lastClass, rowsBefore>>
  /\ UNCHANGED <<sig, statVars, validVars, simVars>>

\* on_message, lines 153-154 and 157-158: writerow(row), or the row is skipped.
WriteRow ==
  /\ pc = "write"
  /\ IF current_writer # NoKey
     THEN buf' = Append(buf, row) /\ pc' = "flush" /\ UNCHANGED <<rec, row>>
     ELSE buf' = buf /\ pc' = "idle" /\ rec' = NoRec /\ row' = NoRow
  /\ UNCHANGED <<clock, setbacks, run, msgs, current_minute_key, current_file,
                 current_writer, created_files, disk, opened, handles, asked,
                 lastClass, rowsBefore>>
  /\ UNCHANGED <<sig, statVars, validVars, simVars>>

\* on_message, line 155: current_file.flush(); the handler returns.
FlushRow ==
  /\ pc = "flush"
  /\ SetGlobals(Flushed(Globals))
  /\ pc' = "idle"
  /\ rec' = NoRec
  /\ row' = NoRow
  /\ UNCHANGED <<clock, setbacks, run, msgs, lastClass, rowsBefore>>
  /\ UNCHANGED <<sig, statVars, validVars, simVars>>

\* on_disconnect: close_file().  loop_forever() reconnects afterwards, so
\* messages keep arriving.
OnDisconnect ==
  /\ pc = "idle"
  /\ current_file # NoKey
  /\ SetGlobals(close_file(Globals))
  /\ UNCHANGED <<clock, setbacks, pc, run, msgs, rec, row, lastClass, rowsBefore>>
  /\ UNCHANGED <<sig, statVars, validVars, simVars>>

\* SIGINT / SIGTERM once the handlers are installed: graceful_exit().
Signal ==
  /\ pc \in {"idle", "rotate", "opening", "row", "rotate_again", "write", "flush"}
  /\ SetGlobals(graceful_exit(Globals))
  /\ pc' = "exited"
  /\ rec' = NoRec
  /\ row' = NoRow
  /\ sig' = [at |-> pc, open |-> current_file # NoKey]
  /\ UNCHANGED <<clock, setbacks, run, msgs, lastClass, rowsBefore>>
  /\ UNCHANGED <<statVars, validVars, simVars>>

\* The program is started again: fresh globals, the files of SAVE_DIR remain.
Restart ==
  /\ pc \in {"exited", "crashed"}
  /\ run < MaxRuns
  /\ run' = run + 1
  /\ pc' = "start"
  /\ current_minute_key' = NoKey
  /\ current_file' = NoKey
  /\ current_writer' = NoKey
  /\ created_files' = 0
  /\ buf' = <<>>
  /\ rec' = NoRec
  /\ row' = NoRow
  /\ opened' = 0
  /\ handles' = {}
  /\ asked' = <<>>
  /\ lastClass' = "none"
  /\ rowsBefore' = 0
  /\ sig' = NoSig
  /\ UNCHANGED <<clock, setbacks, msgs, disk>>
  /\ UNCHANGED <<statVars, validVars, simVars>>

\* No thread is inside the StatCollector.
NoThread == "none"
RecThreads == {"t1", "t2"}
IdleThread == [pc |-> "idle", topic |-> "none", seq |-> -1]
IdleSnapper == [pc |-> "idle", keys |-> {}, todo |-> {}, out |-> <<>>]
InitConc ==
  /\ lock = NoThread
  /\ thr = [t \in RecThreads |-> IdleThread]
  /\ snapper = IdleSnapper
  /\ calls = [t \in RecThreads |-> <<>>]
  /\ log = <<>>

\* The simulator is not running and the broker retains nothing of it.
InitSimIdle ==
  /\ simPc = "off"
  /\ normal_exit = FALSE
  /\ stop_event = FALSE
  /\ elapsed = 0
  /\ count = 0
  /\ retained = [online |-> "none", mode |-> "none"]
  /\ will = FALSE

InitStatIdle ==
  /\ stats = <<>> /\ snap = <<>> /\ snapFresh = FALSE
  /\ arrSeqs = <<>> /\ arrTotal = <<>> /\ arrNoSeq = <<>>
  /\ InitConc
InitValidIdle == vBat = None /\ vOut = "none"

Init == InitSub /\ InitStatIdle /\ InitValidIdle /\ InitSimIdle

\* The program, its messages, its clock (set back at most MaxSetbacks times)
\* and its restarts.
Next ==
  \/ Tick(MaxClock)
  \/ ClockBack
  \/ Start
  \/ \E payload \in SubPayloads : OnMessage(payload, MaxMsgs)
  \/ Rotate
  \/ BuildRow
  \/ RotateAgain
  \/ WriteRow
  \/ FlushRow
  \/ OnDisconnect
  \/ Signal
  \/ Restart

Spec == Init /\ [][Next]_vars

\* One run of the same program with the transport staying connected and the
\* clock advancing, long enough to use up the file budget: a valid and an
\* invalid payload, MaxBudgetClock + 1 minutes.
BudgetPayloads ==
  { Obj(Num(4200), A, A, Num(700), A), Obj(Num(15000), A, A, A, A) }

NextBudget ==
  \/ Tick(MaxBudgetClock)
  \/ Start
  \/ \E payload \in BudgetPayloads : OnMessage(payload, MaxBudgetMsgs)
  \/ Rotate
  \/ BuildRow
  \/ WriteRow
  \/ FlushRow
  \/ Signal

SpecBudget == Init /\ [][NextBudget]_vars

\* rotate_if_needed() of line 133 in two steps, lines 110-112 and 113-116, so
\* that a signal can arrive between close_file() and open_new_file().  The
\* clock does not tick at "opening": mk was read at line 110.
RotateClose ==
  /\ pc = "rotate"
  /\ IF now_minute_key(clock) # current_minute_key
     THEN SetGlobals(close_file(Globals)) /\ pc' = "opening"
     ELSE UNCHANGED globalVars /\ pc' = "row"
  /\ UNCHANGED <<clock, setbacks, run, msgs, rec, row, lastClass, rowsBefore>>
  /\ UNCHANGED <<sig, statVars, validVars, simVars>>

RotateOpen ==
  /\ pc = "opening"
  /\ LET mk == now_minute_key(clock)
         r == open_new_file(Globals, mk)
         g == IF r.ok THEN [r.g EXCEPT !.current_minute_key = mk]
              ELSE graceful_exit(r.g)
     IN /\ SetGlobals(g)
        /\ pc' = IF g.alive THEN "row" ELSE "exited"
  /\ UNCHANGED <<clock, setbacks, run, msgs, rec, row, lastClass, rowsBefore>>
  /\ UNCHANGED <<sig, statVars, validVars, simVars>>

\* The program with signals arriving at every position of on_message.
NextSignal ==
  \/ Tick(MaxClock)
  \/ Start
  \/ \E payload \in BudgetPayloads : OnMessage(payload, MaxMsgs)
  \/ RotateClose
  \/ RotateOpen
  \/ BuildRow
  \/ RotateAgain
  \/ WriteRow
  \/ FlushRow
  \/ OnDisconnect
  \/ Signal
  \/ Restart

SpecSignal == Init /\ [][NextSignal]_vars

\* open(fpath, "a") of line 96 raises OSError (directory removed, permission,
\* disk full).  Nothing catches it in open_new_file, rotate_if_needed or
\* on_message, and the network loop re-raises what a callback raises: the
\* process ends with the traceback.  close_file() of line 112 has run.
OpenFails ==
  /\ pc \in {"start", "rotate", "rotate_again"}
  /\ now_minute_key(clock) # current_minute_key
  /\ created_files < MAX_FILES
  /\ SetGlobals([close_file(Globals) EXCEPT !.asked = Append(@, now_minute_key(clock))])
  /\ pc' = "crashed"
  /\ rec' = NoRec
  /\ row' = NoRow
  /\ UNCHANGED <<clock, setbacks, run, msgs, lastClass, rowsBefore>>
  /\ UNCHANGED <<sig, statVars, validVars, simVars>>

\* writerow(row) / flush() of lines 154-155 raise OSError: the row has not
\* reached the file, and the exception leaves on_message as above.
WriteFails ==
  /\ pc = "flush"
  /\ pc' = "crashed"
  /\ rec' = NoRec
  /\ row' = NoRow
  /\ UNCHANGED <<clock, setbacks, run, msgs, globalVars, lastClass, rowsBefore>>
  /\ UNCHANGED <<sig, statVars, validVars, simVars>>

\* The program on a file system that can fail.
NextFs ==
  \/ Tick(MaxClock)
  \/ ClockBack
  \/ Start
  \/ \E payload \in SubPayloads : OnMessage(payload, MaxMsgs)
  \/ Rotate
  \/ BuildRow
  \/ RotateAgain
  \/ WriteRow
  \/ FlushRow
  \/ OnDisconnect
  \/ Signal
  \/ Restart
  \/ OpenFails
  \/ WriteFails

SpecFs == Init /\ [][NextFs]_vars


\* ------------------------------------------------------- StatCollector
Topics == {"gps", "alt"}
SeqNone == -1      \* first_seq / last_seq is None

\* The payload of a statistics arrival: kind as above, seq the value of its
\* "seq" key.
StatPayload(kind, seq) == [kind |-> kind, seq |-> seq]

\* int(x): ok is FALSE where int() raises; a float is truncated toward zero,
\* a string must be the text of an integer.
int(x) ==
  CASE x.t = "num" ->
         [ok |-> TRUE, n |-> IF x.n >= 0 THEN x.n \div 100 ELSE -((-x.n) \div 100)]
    [] x.t = "numstr" /\ x.n % 100 = 0 -> [ok |-> TRUE, n |-> x.n \div 100]
    [] x.t = "bool" -> [ok |-> TRUE, n |-> x.n]
    [] OTHER -> [ok |-> FALSE, n |-> 0]

\* record(), lines 166-170: the local seq.  obj.get raises on a list or a
\* scalar, json.loads on an undecodable payload; every exception gives -1.
ParsedSeq(payload) ==
  IF payload.kind # "object" THEN -1
  ELSE IF payload.seq = Absent THEN -1
  ELSE IF ~int(payload.seq).ok THEN -1
  ELSE int(payload.seq).n

NewEntry ==
  [recv_total |-> 0, unique_seqs |-> {}, duplicates |-> 0,
   first_seq |-> SeqNone, last_seq |-> SeqNone]

\* record(), lines 172-174: the entry of topic, created on first sight.
EntryOf(st, topic) == IF topic \in DOMAIN st THEN st[topic] ELSE NewEntry

\* Updated mutated: a repeated sequence number is not counted as a duplicate.
Updated_NoDuplicateCount(e, seq) ==
  LET t == [e EXCEPT !.recv_total = @ + 1] IN
  IF seq >= 0
  THEN LET f == IF t.first_seq = SeqNone THEN [t EXCEPT !.first_seq = seq] ELSE t
           l == [f EXCEPT !.last_seq = seq]
       IN [l EXCEPT !.unique_seqs = @ \cup {seq}]
  ELSE t

\* Updated mutated: the distinct set is assigned the new number, not extended.
Updated_Overwrite(e, seq) ==
  LET t == [e EXCEPT !.recv_total = @ + 1] IN
  IF seq >= 0
  THEN LET f == IF t.first_seq = SeqNone THEN [t EXCEPT !.first_seq = seq] ELSE t
           l == [f EXCEPT !.last_seq = seq]
       IN IF seq \in l.unique_seqs
          THEN [l EXCEPT !.duplicates = @ + 1]
          ELSE [l EXCEPT !.unique_seqs = {seq}]
  ELSE t

\* record(), lines 175-183, on the entry e with the local seq.
Updated(e, seq) ==
  LET t == [e EXCEPT !.recv_total = @ + 1] IN
  IF seq >= 0
  THEN LET f == IF t.first_seq = SeqNone THEN [t EXCEPT !.first_seq = seq] ELSE t
           l == [f EXCEPT !.last_seq = seq]
       IN IF seq \in l.unique_seqs
          THEN [l EXCEPT !.duplicates = @ + 1]
          ELSE [l EXCEPT !.unique_seqs = @ \cup {seq}]
  ELSE t

\* StatCollector.record(topic, payload): the stats after the call.
record(st, topic, payload) ==
  [x \in DOMAIN st \cup {topic} |->
     IF x = topic THEN Updated(EntryOf(st, topic), ParsedSeq(payload)) ELSE st[x]]

Max(a, b) == IF a >= b THEN a ELSE b

\* StatCollector.snapshot(): the mapping returned.
snapshot(st) ==
  [topic \in DOMAIN st |->
     LET e == st[topic]
         unique == Cardinality(e.unique_seqs)
         missing ==
           IF e.first_seq # SeqNone /\ e.last_seq # SeqNone /\ e.last_seq >= e.first_seq
           THEN Max(0, (e.last_seq - e.first_seq + 1) - unique)
           ELSE 0
     IN [recv_total |-> e.recv_total, unique |-> unique,
         duplicates |-> e.duplicates, missing |-> missing,
         first_seq |-> e.first_seq, last_seq |-> e.last_seq]]

\* The arrivals: every way a payload can lack a sequence number, and the
\* sequence numbers 0 .. MaxSeq.
StatPayloads ==
  { StatPayload("undecodable", Absent), StatPayload("list", Absent),
    StatPayload("object", Absent), StatPayload("object", None),
    StatPayload("object", Txt), StatPayload("object", Num(-100)),
    StatPayload("object", Num(150)) }
  \cup { StatPayload("object", Num(100 * k)) : k \in 0 .. MaxSeq }

\* The sequence number a payload carries: a JSON integer that is not negative.
CarriesSeq(payload) ==
  /\ payload.kind = "object"
  /\ payload.seq.t = "num" /\ payload.seq.n >= 0 /\ payload.seq.n % 100 = 0
CarriedSeq(payload) == payload.seq.n \div 100

InitStat ==
  /\ stats = <<>>
  /\ snap = <<>>
  /\ snapFresh = FALSE
  /\ arrSeqs = [t \in Topics |-> {}]
  /\ arrTotal = [t \in Topics |-> 0]
  /\ arrNoSeq = [t \in Topics |-> 0]
  /\ InitConc

TotalArrivals == arrTotal["gps"] + arrTotal["alt"]

\* on_message_sub: one arrival on topic.
Record(topic, payload) ==
  /\ TotalArrivals < MaxArrivals
  /\ stats' = record(stats, topic, payload)
  /\ snapFresh' = FALSE
  /\ arrTotal' = [arrTotal EXCEPT ![topic] = @ + 1]
  /\ arrSeqs' = IF CarriesSeq(payload)
                THEN [arrSeqs EXCEPT ![topic] = @ \cup {CarriedSeq(payload)}]
                ELSE arrSeqs
  /\ arrNoSeq' = IF CarriesSeq(payload) THEN arrNoSeq
                 ELSE [arrNoSeq EXCEPT ![topic] = @ + 1]
  /\ UNCHANGED <<snap, concVars, subVars, validVars, simVars>>

\* main(), line 327: stats = stat.snapshot().
Snapshot ==
  /\ ~snapFresh
  /\ snap' = snapshot(stats)
  /\ snapFresh' = TRUE
  /\ UNCHANGED <<stats, arrSeqs, arrTotal, arrNoSeq, concVars, subVars, validVars, simVars>>

NextStat ==
  \/ \E topic \in Topics, payload \in StatPayloads : Record(topic, payload)
  \/ Snapshot

InitStatSpec == InitSub /\ InitStat /\ InitValidIdle /\ InitSimIdle

SpecStat == InitStatSpec /\ [][NextStat]_vars


\* ------------------------------------- StatCollector: concurrent callers
\* Threads t1, t2 call record(), a third thread calls snapshot().  A step is
\* one statement of the method; `with self.lock` is Acquire ... Release.
ConcPayloads ==
  { StatPayload("object", Absent), StatPayload("object", Num(100)) }

\* threading.Lock.acquire() mutated: the lock is taken whoever holds it.
acquirable_Always(l) == TRUE

\* threading.Lock.acquire() returns only while no thread holds the lock.
acquirable(l) == l = NoThread

\* Line 173 mutated: the map is replaced by one holding the new entry.
Created_Reset(st, topic) == [x \in {topic} |-> NewEntry]

\* Line 173: self.stats[topic] = {...}, a new entry stored under topic.
Created(st, topic) ==
  [x \in DOMAIN st \cup {topic} |-> IF x = topic THEN NewEntry ELSE st[x]]

\* Line 175: st["recv_total"] += 1.
Counted(e) == [e EXCEPT !.recv_total = @ + 1]

\* Lines 176-183: the sequence bookkeeping of the entry.
Tracked(e, seq) ==
  IF seq >= 0
  THEN LET f == IF e.first_seq = SeqNone THEN [e EXCEPT !.first_seq = seq] ELSE e
           l == [f EXCEPT !.last_seq = seq]
       IN IF seq \in l.unique_seqs
          THEN [l EXCEPT !.duplicates = @ + 1]
          ELSE [l EXCEPT !.unique_seqs = @ \cup {seq}]
  ELSE e

ConcCalls == Len(calls["t1"]) + Len(calls["t2"])

\* record(topic, payload) is called on thread th; lines 166-170 give the
\* local seq.
Call(th, topic, payload) ==
  /\ thr[th].pc = "idle"
  /\ ConcCalls < MaxConcCalls
  /\ thr' = [thr EXCEPT ![th] = [pc |-> "acquire", topic |-> topic,
                                  seq |-> ParsedSeq(payload)]]
  /\ calls' = [calls EXCEPT ![th] = Append(@, [topic |-> topic, payload |-> payload,
                                               first |-> topic \notin DOMAIN stats])]
  /\ UNCHANGED <<lock, snapper, log, stats, snap, snapFresh, arrSeqs, arrTotal, arrNoSeq>>
  /\ UNCHANGED <<subVars, validVars, simVars>>

\* Line 171: with self.lock.
Acquire(th) ==
  /\ thr[th].pc = "acquire"
  /\ acquirable(lock)
  /\ lock' = th
  /\ thr' = [thr EXCEPT ![th].pc = "check"]
  /\ log' = Append(log, calls[th][Len(calls[th])])
  /\ UNCHANGED <<snapper, calls, stats, snap, snapFresh, arrSeqs, arrTotal, arrNoSeq>>
  /\ UNCHANGED <<subVars, validVars, simVars>>

\* Line 172: if topic not in self.stats.
Check(th) ==
  /\ thr[th].pc = "check"
  /\ thr' = [thr EXCEPT ![th].pc = IF thr[th].topic \notin DOMAIN stats
                                    THEN "insert" ELSE "count"]
  /\ UNCHANGED <<lock, snapper, calls, log, stats, snap, snapFresh, arrSeqs, arrTotal, arrNoSeq>>
  /\ UNCHANGED <<subVars, validVars, simVars>>

\* Line 173.
Insert(th) ==
  /\ thr[th].pc = "insert"
  /\ stats' = Created(stats, thr[th].topic)
  /\ thr' = [thr EXCEPT ![th].pc = "count"]
  /\ UNCHANGED <<lock, snapper, calls, log, snap, snapFresh, arrSeqs, arrTotal, arrNoSeq>>
  /\ UNCHANGED <<subVars, validVars, simVars>>

\* Line 175.  st is the entry bound at line 174.
Count(th) ==
  /\ thr[th].pc = "count"
  /\ thr[th].topic \in DOMAIN stats
  /\ stats' = [stats EXCEPT ![thr[th].topic] = Counted(@)]
  /\ thr' = [thr EXCEPT ![th].pc = "track"]
  /\ UNCHANGED <<lock, snapper, calls, log, snap, snapFresh, arrSeqs, arrTotal, arrNoSeq>>
  /\ UNCHANGED <<subVars, validVars, simVars>>

\* Lines 176-183.
Track(th) ==
  /\ thr[th].pc = "track"
  /\ thr[th].topic \in DOMAIN stats
  /\ stats' = [stats EXCEPT ![thr[th].topic] = Tracked(@, thr[th].seq)]
  /\ thr' = [thr EXCEPT ![th].pc = "release"]
  /\ UNCHANGED <<lock, snapper, calls, log, snap, snapFresh, arrSeqs, arrTotal, arrNoSeq>>
  /\ UNCHANGED <<subVars, validVars, simVars>>

\* The end of the with block: the lock is released and record() returns.
Release(th) ==
  /\ thr[th].pc = "release"
  /\ lock' = NoThread
  /\ thr' = [thr EXCEPT ![th] = IdleThread]
  /\ UNCHANGED <<snapper, calls, log, stats, snap, snapFresh, arrSeqs, arrTotal, arrNoSeq>>
  /\ UNCHANGED <<subVars, validVars, simVars>>

\* snapshot(), lines 186-188: the lock is taken and the iteration over
\* self.stats.items() starts.
SnapBegin ==
  /\ snapper.pc = "idle"
  /\ acquirable(lock)
  /\ lock' = "main"
  /\ snapper' = [pc |-> "copy", keys |-> DOMAIN stats, todo |-> DOMAIN stats, out |-> <<>>]
  /\ UNCHANGED <<thr, calls, log, stats, snap, snapFresh, arrSeqs, arrTotal, arrNoSeq>>
  /\ UNCHANGED <<subVars, validVars, simVars>>

\* Lines 188-203: one round of the loop.  The dict iterator raises
\* RuntimeError when the map has changed size since the loop started; the
\* with block releases the lock as the exception leaves it.
SnapCopy ==
  /\ snapper.pc = "copy"
  /\ snapper.todo # {}
  /\ IF DOMAIN stats # snapper.keys
     THEN /\ snapper' = [snapper EXCEPT !.pc = "raised"]
          /\ lock' = NoThread
     ELSE /\ \E topic \in snapper.todo :
               snapper' = [snapper EXCEPT
                 !.todo = @ \ {topic},
                 !.out = [x \in DOMAIN @ \cup {topic} |->
                            IF x = topic THEN snapshot(stats)[topic] ELSE @[x]]]
          /\ lock' = lock
  /\ UNCHANGED <<thr, calls, log, stats, snap, snapFresh, arrSeqs, arrTotal, arrNoSeq>>
  /\ UNCHANGED <<subVars, validVars, simVars>>

\* Line 204: return out; the lock is released.
SnapEnd ==
  /\ snapper.pc = "copy"
  /\ snapper.todo = {}
  /\ snap' = snapper.out
  /\ snapper' = IdleSnapper
  /\ lock' = NoThread
  /\ UNCHANGED <<thr, calls, log, stats, snapFresh, arrSeqs, arrTotal, arrNoSeq>>
  /\ UNCHANGED <<subVars, validVars, simVars>>

NextConc ==
  \/ \E th \in RecThreads, topic \in Topics, payload \in ConcPayloads :
       Call(th, topic, payload)
  \/ \E th \in RecThreads : Acquire(th)
  \/ \E th \in RecThreads : Check(th)
  \/ \E th \in RecThreads : Insert(th)
  \/ \E th \in RecThreads : Count(th)
  \/ \E th \in RecThreads : Track(th)
  \/ \E th \in RecThreads : Release(th)
  \/ SnapBegin
  \/ SnapCopy
  \/ SnapEnd

SpecConc == InitStatSpec /\ [][NextConc]_vars


\* ------------------------------------------- simulator: status topics
\* main() of the simulator as far as the retained status is concerned.
\* --seconds is MaxSimSeconds.
InitSim ==
  /\ simPc = "connect"
  /\ normal_exit = FALSE
  /\ stop_event = FALSE
  /\ elapsed = 0
  /\ count = 0
  /\ retained = [online |-> "none", mode |-> "none"]
  /\ will = FALSE

\* Lines 217-242: set_lwt, connect, "online" and "CRUISE" published retained.
SimConnect ==
  /\ simPc = "connect"
  /\ simPc' = "loop"
  /\ will' = TRUE
  /\ retained' = [online |-> "online", mode |-> "CRUISE"]
  /\ UNCHANGED <<normal_exit, stop_event, elapsed, count>>
  /\ UNCHANGED <<subVars, statVars, validVars>>

\* Line 283: the test of the while loop.
SimTest ==
  /\ simPc = "loop"
  /\ IF ~stop_event /\ elapsed < MaxSimSeconds
     THEN count < MaxSimCount /\ simPc' = "publish"
     ELSE simPc' = "finally"
  /\ UNCHANGED <<normal_exit, stop_event, elapsed, count, retained, will>>
  /\ UNCHANGED <<subVars, statVars, validVars>>

\* Lines 284-311: one round of telemetry (not retained), then the sleep.
SimPublish ==
  /\ simPc = "publish"
  /\ count' = count + 1
  /\ simPc' = "loop"
  /\ UNCHANGED <<normal_exit, stop_event, elapsed, retained, will>>
  /\ UNCHANGED <<subVars, statVars, validVars>>

\* A second of the run time passes.
SimSecond ==
  /\ simPc \in {"loop", "publish"}
  /\ elapsed < MaxSimSeconds
  /\ elapsed' = elapsed + 1
  /\ UNCHANGED <<simPc, normal_exit, stop_event, count, retained, will>>
  /\ UNCHANGED <<subVars, statVars, validVars>>

\* handle_sig, lines 256-259: SIGINT or SIGTERM once the handlers are set.
SimSignal ==
  /\ simPc \in {"loop", "publish", "finally"}
  /\ ~normal_exit
  /\ normal_exit' = TRUE
  /\ stop_event' = TRUE
  /\ UNCHANGED <<simPc, elapsed, count, retained, will>>
  /\ UNCHANGED <<subVars, statVars, validVars>>

\* Lines 317-323: "offline" and "IDLE" are published retained if
\* normal_exit["flag"] is set.
SimFinally ==
  /\ simPc = "finally"
  /\ retained' = IF normal_exit THEN [online |-> "offline", mode |-> "IDLE"]
                  ELSE retained
  /\ simPc' = "disconnect"
  /\ UNCHANGED <<normal_exit, stop_event, elapsed, count, will>>
  /\ UNCHANGED <<subVars, statVars, validVars>>

\* Lines 347-348: loop_stop() and disconnect().  A DISCONNECT packet makes
\* the broker drop the last-will message without publishing it.
SimDisconnect ==
  /\ simPc = "disconnect"
  /\ simPc' = "done"
  /\ will' = FALSE
  /\ UNCHANGED <<normal_exit, stop_event, elapsed, count, retained>>
  /\ UNCHANGED <<subVars, statVars, validVars>>

\* The process is killed or loses its connection: the broker publishes the
\* last will of line 120, "offline" retained on the online topic.
SimKill ==
  /\ simPc \in {"loop", "publish"}
  /\ will
  /\ simPc' = "killed"
  /\ will' = FALSE
  /\ retained' = [retained EXCEPT !.online = "offline"]
  /\ UNCHANGED <<normal_exit, stop_event, elapsed, count>>
  /\ UNCHANGED <<subVars, statVars, validVars>>

NextSim ==
  \/ SimConnect
  \/ SimTest
  \/ SimPublish
  \/ SimSecond
  \/ SimSignal
  \/ SimFinally
  \/ SimDisconnect
  \/ SimKill

InitSimSpec == InitSub /\ InitStatIdle /\ InitValidIdle /\ InitSim

SpecSim == InitSimSpec /\ [][NextSim]_vars


\* ---------------------------------------------- is_battery_valid alone
\* The arguments: None, values float() refuses, NaN, the booleans, and every
\* number and numeric string from MaxMargin hundredths below 0 to MaxMargin
\* hundredths above 100.
BatteryInputs ==
  {None, Txt, List, NaN, Bool(0), Bool(1)}
  \cup {Num(h) : h \in -MaxMargin .. 10000 + MaxMargin}
  \cup {NumStr(h) : h \in -MaxMargin .. 10000 + MaxMargin}

InitValid == vBat \in BatteryInputs /\ vOut = "none"

Validate ==
  /\ vOut = "none"
  /\ vOut' = IF is_battery_valid(vBat) THEN "T" ELSE "F"
  /\ UNCHANGED <<vBat, subVars, statVars, simVars>>

NextValid == Validate

InitValidSpec == InitSub /\ InitStatIdle /\ InitValid /\ InitSimIdle

SpecValid == InitValidSpec /\ [][NextValid]_vars

\* ================================================================ claims
AllRows == UNION {{disk[k][i] : i \in 1 .. Len(disk[k])} : k \in DOMAIN disk}
              \cup {buf[i] : i \in 1 .. Len(buf)}

\* C1: every data row of every bucket file (flushed or still buffered) has a
\* battery value that is present, numeric and within [0, 100], and a message
\* whose battery is absent, non-numeric or out of range adds no row to any
\* bucket.
C1_OnlyValidBatteryPersisted ==
  /\ \A r \in AllRows : ~r.hdr => NumericInRange(r.battery)
  /\ lastClass = "bad" => TotalDataRows(disk) = rowsBefore /\ buf = <<>>

C1_Witness == lastClass = "bad" /\ TotalDataRows(disk) > 0 /\ pc = "idle"

\* C2: is_battery_valid returns True exactly for a value that is present,
\* numeric and within [0, 100], both bounds included; -0.01, 100.01, None and
\* a non-numeric value are rejected.
C2_ValidIffInRange ==
  vOut # "none" =>
    /\ (vOut = "T") <=> NumericInRange(vBat)
    /\ vBat \in {Num(0), Num(10000)} => vOut = "T"
    /\ vBat \in {Num(-1), Num(10001), None, Txt} => vOut = "F"

C2_Witness == vOut = "T" /\ vBat = Num(10000)


IsDistinct(q) == \A i, j \in 1 .. Len(q) : i # j => q[i] # q[j]
Min(a, b) == IF a <= b THEN a ELSE b

\* C3: in a run whose rotation requests name pairwise distinct minute keys,
\* each of the first MAX_FILES (5) keys asked for gets a file opened, the
\* next key is refused without any file being opened or created and the
\* process exits; created_files and the number of open() calls never exceed
\* MAX_FILES.
C3_BudgetOfFiveFiles ==
  /\ created_files <= MAX_FILES
  /\ opened <= MAX_FILES
  /\ IsDistinct(asked) =>
       /\ opened = Min(Len(asked), MAX_FILES)
       /\ Len(asked) <= MAX_FILES + 1
       /\ \A i \in 1 .. Len(asked) : i <= MAX_FILES <=> asked[i] \in DOMAIN disk
       /\ Len(asked) = MAX_FILES + 1 =>
            /\ pc = "exited"
            /\ current_file = NoKey /\ current_writer = NoKey
            /\ Cardinality(DOMAIN disk) = MAX_FILES

C3_Witness == Len(asked) = MAX_FILES + 1 /\ pc = "exited" /\ opened = MAX_FILES

HeaderRows(f) == Len(SelectSeq(f, LAMBDA r : r.hdr))
IsPrefix(p, q) == Len(p) <= Len(q) /\ \A i \in 1 .. Len(p) : p[i] = q[i]

\* C4: every bucket file holds at most one header row, however often it is
\* opened, and no step removes a file or changes a row a file already holds:
\* a file only grows at its end.
C4_OneHeaderAppendOnly ==
  /\ [](\A k \in DOMAIN disk : HeaderRows(disk[k]) <= 1)
  /\ [][\A k \in DOMAIN disk : k \in DOMAIN disk' /\ IsPrefix(disk[k], disk'[k])]_vars

\* A second run has opened a file that already held data rows.
C4_Witness ==
  /\ run = 2 /\ pc = "idle" /\ lastClass = "none"
  /\ current_file # NoKey /\ DataRows(disk[current_file]) > 0
  /\ HeaderRows(disk[current_file]) = 1

\* The minute key came back to an earlier value within one run.
C4_WitnessSameRun ==
  /\ run = 1 /\ pc = "idle" /\ ~IsDistinct(asked)
  /\ current_file # NoKey /\ DataRows(disk[current_file]) > 0


\* C5: whenever on_message has returned for an accepted record and the process
\* is still running, exactly one row was added for it and the row is flushed,
\* disconnects and reconnects included.
C5_AcceptedRowWritten ==
  (pc = "idle" /\ lastClass = "good") =>
    TotalDataRows(disk) = rowsBefore + 1 /\ buf = <<>>

\* C6: every data row lies in the bucket file whose minute key is the minute
\* of the row's own ts_iso.
C6_RowInBucketOfItsMinute ==
  \A k \in DOMAIN disk : \A i \in 1 .. Len(disk[k]) :
    ~disk[k][i].hdr => disk[k][i].ts_iso = k


MinOf(S) == CHOOSE x \in S : \A y \in S : x <= y
MaxOf(S) == CHOOSE x \in S : \A y \in S : x >= y
\* A channel all of whose arrivals carried a sequence number, at least one.
Sequenced(t) == t \in DOMAIN stats /\ arrNoSeq[t] = 0 /\ arrSeqs[t] # {}

\* C7: on a channel whose arrivals all carry sequence numbers, the snapshot's
\* first_seq is the smallest and its last_seq the largest sequence number
\* recorded, in whatever order they arrived.
C7_FirstLastAreMinMax ==
  snapFresh =>
    \A t \in DOMAIN snap : Sequenced(t) =>
      /\ snap[t].first_seq = MinOf(arrSeqs[t])
      /\ snap[t].last_seq = MaxOf(arrSeqs[t])

\* C8: on such a channel the snapshot's missing is
\* max(0, (max_seq - min_seq + 1) - distinct_count), in whatever order the
\* messages arrived.
C8_MissingFromMinMax ==
  snapFresh =>
    \A t \in DOMAIN snap : Sequenced(t) =>
      snap[t].missing =
        Max(0, (MaxOf(arrSeqs[t]) - MinOf(arrSeqs[t]) + 1) - Cardinality(arrSeqs[t]))

\* C9: on a channel every arrival of which carried a sequence number,
\* duplicates + the size of the distinct-sequence set = recv_total, in the
\* collector's entry and in the snapshot.
C9_DuplicatesPlusDistinctIsTotal ==
  /\ \A t \in DOMAIN stats : arrNoSeq[t] = 0 =>
       stats[t].duplicates + Cardinality(stats[t].unique_seqs) = stats[t].recv_total
  /\ snapFresh =>
       \A t \in DOMAIN snap : arrNoSeq[t] = 0 =>
         snap[t].duplicates + snap[t].unique = snap[t].recv_total

C9_Witness ==
  /\ snapFresh
  /\ Sequenced("gps")
  /\ snap["gps"].duplicates = 1 /\ snap["gps"].unique = 3 /\ snap["gps"].recv_total = 4

\* C10: an arrival that carries no sequence number (undecodable payload, JSON
\* that is not an object, seq missing, seq not an integer) adds one to
\* recv_total of its channel and leaves the distinct set, duplicates, first_seq
\* and last_seq of the channel as they were; a channel with only such arrivals
\* reports total = number of arrivals and missing = 0.
C10_NoSeqArrivalCountsOnly ==
  /\ [][\A t \in Topics : arrNoSeq'[t] = arrNoSeq[t] + 1 =>
          /\ t \in DOMAIN stats'
          /\ stats'[t] = [EntryOf(stats, t) EXCEPT !.recv_total = @ + 1]]_vars
  /\ [](\A t \in DOMAIN stats : arrSeqs[t] = {} =>
          /\ stats[t].recv_total = arrTotal[t]
          /\ snapshot(stats)[t].missing = 0)


\* The stats after the record() calls of q, made one after the other.
RECURSIVE Replay(_)
Replay(q) ==
  IF q = <<>> THEN <<>>
  ELSE record(Replay(SubSeq(q, 1, Len(q) - 1)), q[Len(q)].topic, q[Len(q)].payload)

ChannelsOf(q) == {q[i].topic : i \in 1 .. Len(q)}
Quiescent == \A th \in RecThreads : thr[th].pc = "idle"
DisjointChannels == ChannelsOf(calls["t1"]) \cap ChannelsOf(calls["t2"]) = {}

\* C11: once the threads have finished their record() calls, made on disjoint
\* channels, the snapshot is the one the same calls give when they are made
\* one after the other, thread by thread in either order, whatever the
\* interleaving was.
C11_ConcurrentEqualsSequential ==
  (Quiescent /\ DisjointChannels) =>
    /\ snapshot(stats) = snapshot(Replay(calls["t1"] \o calls["t2"]))
    /\ snapshot(stats) = snapshot(Replay(calls["t2"] \o calls["t1"]))

\* The calls of t1 and t2 took the lock alternately.
C11_Witness ==
  /\ Quiescent /\ DisjointChannels
  /\ Len(calls["t1"]) = 2 /\ Len(calls["t2"]) = 1
  /\ log = <<calls["t1"][1], calls["t2"][1], calls["t1"][2]>>
  /\ snapshot(stats)[calls["t1"][1].topic].duplicates = 1

\* A snapshot (whole or under construction) shows of every channel the state
\* after some number of whole record() calls.
AtCallBoundary(out) ==
  \A topic \in DOMAIN out :
    \E k \in 0 .. Len(log) :
      LET st == Replay(SubSeq(log, 1, k)) IN
        topic \in DOMAIN st /\ out[topic] = snapshot(st)[topic]

\* C12: snapshot() never raises, and what it returns shows of every channel
\* the state before or after a whole record() call, never a part of one.
C12_SnapshotSeesWholeCalls ==
  /\ snapper.pc # "raised"
  /\ AtCallBoundary(snapper.out)
  /\ AtCallBoundary(snap)

\* A snapshot has been returned while record() calls are waiting for the lock
\* and another snapshot is being taken.
C12_Witness ==
  /\ snap # <<>>
  /\ snapper.pc = "copy" /\ snapper.out # <<>>
  /\ \A th \in RecThreads : thr[th].pc = "acquire"


\* open_new_file has refused a key in this run: the budget is exhausted.
Refused == Len(asked) > opened

\* C13: when a rotation finds the budget exhausted the process is stopped with
\* no file open and no row left unflushed, the files are as they were, and a
\* stopped process handles no message and changes no file.
C13_ExhaustedBudgetStops ==
  /\ [](Refused => /\ pc = "exited"
                    /\ current_file = NoKey /\ current_writer = NoKey
                    /\ buf = <<>>)
  /\ [][(Refused' /\ ~Refused) => (buf = <<>> /\ disk' = disk)]_vars
  /\ [][pc = "exited" => (pc' = "exited" /\ msgs' = msgs /\ disk' = disk)]_vars

C13_Witness ==
  /\ Refused /\ pc = "exited"
  /\ lastClass = "good" /\ TotalDataRows(disk) = rowsBefore
  /\ rowsBefore >= 1


\* C14: closing twice leaves what closing once leaves, for close_file and for
\* graceful_exit, and with no file open close_file changes nothing.
C14_CloseIdempotent ==
  /\ close_file(close_file(Globals)) = close_file(Globals)
  /\ graceful_exit(graceful_exit(Globals)) = graceful_exit(Globals)
  /\ current_file = NoKey => close_file(Globals) = Globals

\* A signal arrived after on_disconnect had closed the file, rows on disk.
C14_Witness ==
  /\ pc = "exited" /\ sig.at = "idle" /\ ~sig.open
  /\ TotalDataRows(disk) > 0 /\ created_files > 0


\* C15: on_message on a payload that does not decode to a JSON object
\* (undecodable, or JSON whose top-level value is not an object) ends with the
\* process running and waiting for the next message, and no row is written.
C15_UndecodableRejectedQuietly ==
  [][\A payload \in SubPayloads :
       (payload.kind # "object" /\ OnMessage(payload, MaxMsgs)) =>
         (pc' = "idle" /\ disk' = disk /\ buf' = buf)]_vars


\* C16: a process that has exited has no file open and nothing buffered; the
\* step that ends it leaves every file as it was, but for the open file,
\* which gets the rows written to it and not yet flushed; every data row on
\* disk is a whole row, as on_message built it.
C16_SignalFlushesAndCloses ==
  /\ [](pc = "exited" => (buf = <<>> /\ current_file = NoKey /\ current_writer = NoKey))
  /\ [](\A k \in DOMAIN disk : \A i \in 1 .. Len(disk[k]) :
          disk[k][i] = Header
          \/ (~disk[k][i].hdr /\ disk[k][i].ts_iso \in 0 .. clock
                /\ NumericInRange(disk[k][i].battery) /\ disk[k][i].ts_ms # None))
  /\ [][(pc' = "exited" /\ pc # "exited") =>
          /\ DOMAIN disk' = DOMAIN disk
          /\ \A k \in DOMAIN disk :
               disk'[k] = IF k = current_file THEN disk[k] \o buf ELSE disk[k]]_vars

\* The signal arrived between writerow() and flush(); the row is on disk.
C16_Witness ==
  /\ pc = "exited" /\ sig.at = "flush" /\ sig.open
  /\ lastClass = "good" /\ TotalDataRows(disk) = rowsBefore + 1

\* The signal arrived between close_file() and open_new_file().
C16_WitnessMidRotation ==
  /\ pc = "exited" /\ sig.at = "opening" /\ ~sig.open
  /\ TotalDataRows(disk) > 0


\* C17: a file-system error while a bucket is opened or a row is written for
\* a message does not end the process: it keeps running with no file recorded
\* as open for the failed bucket, waiting for the next message.
C17_FsErrorNotFatal ==
  [][(pc # "start" /\ (OpenFails \/ WriteFails)) =>
       (pc' \notin {"crashed", "exited"} /\ current_file' = NoKey /\ current_writer' = NoKey)]_vars


\* C18: in every run no message is handled before the initial rotation; once
\* the run has left its start the first bucket has been opened or the process
\* has stopped, a run that has handled a message has opened its first bucket,
\* and a row is written only to an open file.
C18_InitialRotationFirst ==
  /\ pc = "start" => (lastClass = "none" /\ asked = <<>> /\ opened = 0)
  /\ pc # "start" =>
       /\ Len(asked) >= 1
       /\ (opened >= 1 /\ asked[1] \in DOMAIN disk) \/ pc \in {"exited", "crashed"}
  /\ lastClass # "none" => (opened >= 1 /\ asked[1] \in DOMAIN disk)
  /\ pc = "flush" => (current_file # NoKey /\ current_writer = current_file)

\* The first message of a run is being written to the bucket opened at start.
C18_Witness ==
  /\ pc = "flush" /\ rowsBefore = 0 /\ run = 1
  /\ asked = <<current_file>> /\ buf # <<>>

\* The first open failed: the run stopped before any message.
C18_WitnessStopped ==
  /\ pc = "crashed" /\ opened = 0 /\ Len(asked) = 1 /\ lastClass = "none"


\* C19: the step that handles a message whose battery is absent, not numeric
\* or out of range ends the handler and leaves the current key, the open file
\* and writer, created_files and every file as they were, whatever the clock
\* says.
C19_RejectedLeavesRotator ==
  [][(msgs' = msgs + 1 /\ lastClass' = "bad") =>
       /\ pc' \in {"idle", "crashed"}
       /\ UNCHANGED <<current_minute_key, current_file, current_writer,
                      created_files, buf, disk, opened, asked>>]_vars

\* A message was rejected in a minute later than that of the open bucket.
C19_Witness ==
  /\ pc = "idle" /\ lastClass = "bad"
  /\ current_file # NoKey /\ current_minute_key = current_file
  /\ now_minute_key(clock) # current_minute_key

\* C20: rotate_if_needed with the minute key equal to the current key changes
\* nothing: no file is closed or opened, no header is written, created_files
\* and the current key stay.
C20_SameKeyRotationIsNoOp ==
  /\ [](now_minute_key(clock) = current_minute_key =>
          rotate_if_needed(Globals, clock) = Globals)
  /\ [][(pc = "rotate" /\ pc' = "row" /\ now_minute_key(clock) = current_minute_key) =>
          UNCHANGED globalVars]_vars

\* The rotation of line 133 found the key of the bucket opened at start.
C20_Witness ==
  /\ pc = "row" /\ run = 1 /\ lastClass = "good"
  /\ asked = <<current_minute_key>> /\ current_file = current_minute_key
  /\ now_minute_key(clock) = current_minute_key
  /\ opened = 1 /\ created_files = 1


\* C21: the process holds at most one file open, the one current_file names;
\* a step that moves to another bucket leaves the rows buffered for the old
\* file on disk and no handle to the old file.
C21_AtMostOneOpenFile ==
  /\ [](Cardinality(handles) <= 1)
  /\ [](handles = IF current_file = NoKey THEN {} ELSE {current_file})
  /\ [][(run' = run /\ current_file # NoKey /\ current_file' # current_file) =>
          /\ current_file \notin handles'
          /\ disk'[current_file] = disk[current_file] \o buf]_vars

\* A rotation has moved from the bucket of one minute to that of another.
C21_Witness ==
  /\ pc = "row" /\ Len(asked) = 2 /\ asked[1] # asked[2]
  /\ asked[1] \in DOMAIN disk /\ DataRows(disk[asked[1]]) > 0
  /\ current_file = asked[2] /\ handles = {asked[2]}


\* The record() calls made on topic, and those of them that have not yet
\* passed line 175.
CallsOn(topic) ==
  Cardinality({<<th, i>> \in RecThreads \X (1 .. MaxConcCalls + 1) :
                 i <= Len(calls[th]) /\ calls[th][i].topic = topic})
BeforeCount(topic) ==
  Cardinality({th \in RecThreads :
                 thr[th].topic = topic /\ thr[th].pc \in {"acquire", "check", "insert", "count"}})

\* C22: whatever threads record on a channel, and however many of them saw
\* it without an entry, the channel has one entry, never replaced, and its
\* recv_total is the number of record() calls that have counted their
\* arrival: with all calls returned, the number of calls.
C22_SameChannelNoLostUpdate ==
  /\ [](\A topic \in Topics :
          (IF topic \in DOMAIN stats THEN stats[topic].recv_total ELSE 0)
            = CallsOn(topic) - BeforeCount(topic))
  /\ [](Quiescent => \A topic \in Topics :
          (IF topic \in DOMAIN stats THEN stats[topic].recv_total ELSE 0) = CallsOn(topic))
  /\ [][\A topic \in DOMAIN stats :
          topic \in DOMAIN stats' /\ stats'[topic].recv_total >= stats[topic].recv_total]_vars

\* Both threads called record() on a channel that had no entry yet, and both
\* calls have returned.
C22_Witness ==
  /\ Quiescent
  /\ Len(calls["t1"]) >= 1 /\ Len(calls["t2"]) >= 1
  /\ calls["t1"][1].topic = calls["t2"][1].topic
  /\ calls["t1"][1].first /\ calls["t2"][1].first
  /\ stats[calls["t1"][1].topic].recv_total = CallsOn(calls["t1"][1].topic)
  /\ CallsOn(calls["t1"][1].topic) = MaxConcCalls


\* The send time a payload carries: ts, or failing that timestamp, when
\* present and not null; the receipt time when neither is.
CarriedTs(p) ==
  IF p.kind # "object" THEN ReceiptMs
  ELSE IF p.ts \notin {Absent, None} THEN p.ts
  ELSE IF p.timestamp \notin {Absent, None} THEN p.timestamp
  ELSE ReceiptMs

\* C23: every data row on disk has the battery and the send time of one of
\* the accepted payloads: its ts_ms is the payload's ts (or timestamp) when
\* that is present and not null, 0 included, and the receipt time only when
\* both are absent.
C23_SendTimeIsProducerTs ==
  \A k \in DOMAIN disk : \A i \in 1 .. Len(disk[k]) :
    ~disk[k][i].hdr =>
      \E payload \in SubPayloads :
        /\ NumericInRange(CarriedBattery(payload))
        /\ disk[k][i].battery = CarriedBattery(payload)
        /\ disk[k][i].ts_ms = CarriedTs(payload)


\* C24: no step removes a channel entry or lowers its recv_total, its
\* duplicates or its distinct set; the step that takes a snapshot leaves the
\* stats as they were, and while no record() call follows it the snapshot
\* taken is the one another snapshot() would return.
C24_StatsOnlyGrow ==
  /\ [][\A t \in DOMAIN stats :
          /\ t \in DOMAIN stats'
          /\ stats'[t].recv_total >= stats[t].recv_total
          /\ stats'[t].duplicates >= stats[t].duplicates
          /\ stats[t].unique_seqs \subseteq stats'[t].unique_seqs]_vars
  /\ [][(snapFresh' /\ ~snapFresh) => stats' = stats]_vars
  /\ [](snapFresh => snap = snapshot(stats))

\* A snapshot taken after arrivals on both channels, a repeated number among
\* them.
C24_Witness ==
  /\ snapFresh /\ DOMAIN stats = Topics
  /\ stats["gps"].duplicates >= 1 /\ Cardinality(stats["gps"].unique_seqs) >= 2
  /\ snap["alt"].recv_total >= 1


\* C25: when main() has ended after its publish loop (by a signal or by the
\* run time elapsing) the broker retains "offline" on the online topic and
\* "IDLE" on the mode topic.
C25_StoppedPublisherIsOffline ==
  simPc = "done" => (retained.online = "offline" /\ retained.mode = "IDLE")

====
